---------------------------- MODULE Spec2Model ----------------------------
(***************************************************************************)
(* Model of flan's Audio combination procedures                            *)
(* (src/src/flan/Audio/AudioCombination.cpp): mix, mix_variable_gain,      *)
(* mix_in_place, join, select and convolve.                                *)
(*                                                                         *)
(* Numbers.  Samples of caller buffers are integers.  Amplitudes (gains)   *)
(* and the samples of a result are exact numbers a + b*sqrt(1/2), written  *)
(* <<a, b>>; this is the smallest number system closed under the gains the *)
(* code produces (integers and sqrt(1/2)).  Floating-point rounding is not *)
(* modelled.  Times (Second) are whole numbers of ticks, one tick being    *)
(* 1/TicksPerSecond of a second.                                           *)
(***************************************************************************)
EXTENDS Integers, Sequences, FiniteSets, TLC

(***************************************************************************)
(* Bounds of the model.                                                    *)
(***************************************************************************)
MaxInputs == 2
MaxChannels == 2
MaxFrames == 2

SampleRates == {1, 2}
TicksPerSecond ==
    CHOOSE d \in 1..4 : /\ \A r \in SampleRates : d % r = 0
                        /\ \A e \in 1..(d - 1) : \E r \in SampleRates : e % r # 0
StartTimes == {-3, 0, 1}
Offsets == {-1, 0, 1}

(***************************************************************************)
(* Arithmetic helpers.                                                     *)
(***************************************************************************)
Max(a, b) == IF a < b THEN b ELSE a
Abs(x) == IF x < 0 THEN -x ELSE x
SetMax(S) == CHOOSE x \in S : \A y \in S : y <= x
\* conversion of a non-integral value to an integer type truncates toward zero
Trunc(x, d) == IF x >= 0 THEN x \div d ELSE -((-x) \div d)
CeilDiv(x, d) == (x + d - 1) \div d

\* numbers a + b*sqrt(1/2)
Amp(a) == <<a, 0>>
AmpZero == <<0, 0>>
AmpAdd(x, y) == <<x[1] + y[1], x[2] + y[2]>>
\* sample * gain, the sample being an integer
AmpScale(s, g) == <<s * g[1], s * g[2]>>

(***************************************************************************)
(* Audio buffers: a format and samples indexed by <<channel, frame>>.      *)
(***************************************************************************)
Positions(nc, nf) == (0..(nc - 1)) \X (0..(nf - 1))

Audio(nc, nf, sr, buf) ==
    [num_channels |-> nc, num_frames |-> nf, sample_rate |-> sr, buffer |-> buf]

create_null == Audio(0, 0, SetMax(SampleRates), [p \in {} |-> 0])
is_null(a) == a.num_channels = 0 \/ a.num_frames = 0

time_to_frame(a, t) == Trunc(t * a.sample_rate, TicksPerSecond)
frame_to_time(a, f) == (f * TicksPerSecond) \div a.sample_rate
get_length(a) == frame_to_time(a, a.num_frames)

\* the resampler: same channels, same duration, the target rate
resample(a, sr) ==
    LET nf == CeilDiv(a.num_frames * sr, a.sample_rate)
    IN  Audio(a.num_channels, nf, sr,
              [p \in Positions(a.num_channels, nf) |->
                  a.buffer[<<p[1], (p[2] * a.sample_rate) \div sr>>]])

(***************************************************************************)
(* Helper functions of AudioCombination.cpp.                               *)
(***************************************************************************)
\* mutant: std::min_element instead of std::max_element
match_sample_rates_to_lowest(ins) ==
    IF ins = <<>> THEN <<>>
    ELSE LET min_sr == CHOOSE x \in {ins[i].sample_rate : i \in 1..Len(ins)} :
                           \A i \in 1..Len(ins) : x <= ins[i].sample_rate
             all_match == \A i \in 1..Len(ins) : ins[i].sample_rate = min_sr
         IN  IF all_match THEN <<>>
             ELSE [i \in 1..Len(ins) |-> resample(ins[i], min_sr)]

match_sample_rates_or_return_null(ins) ==
    IF ins = <<>> THEN <<>>
    ELSE LET max_sr == SetMax({ins[i].sample_rate : i \in 1..Len(ins)})
             all_match == \A i \in 1..Len(ins) : ins[i].sample_rate = max_sr
         IN  IF all_match THEN <<>>
             ELSE [i \in 1..Len(ins) |-> resample(ins[i], max_sr)]

\* ins_resampled_container.empty() ? ins_unmatched : get_pointers( container )
matched_inputs(ins_unmatched) ==
    LET ins_resampled_container == match_sample_rates_or_return_null(ins_unmatched)
    IN  IF ins_resampled_container = <<>> THEN ins_unmatched
        ELSE ins_resampled_container

\* mutant: missing entries repeat the last given one
pad_to_repeating_last(v, n, fill) ==
    [i \in 1..Max(Len(v), n) |->
        IF i <= Len(v) THEN v[i] ELSE IF Len(v) > 0 THEN v[Len(v)] ELSE fill]

\* for( auto _ : iota_view( v.size(), n ) ) v.push_back( fill )
pad_to(v, n, fill) ==
    [i \in 1..Max(Len(v), n) |-> IF i <= Len(v) THEN v[i] ELSE fill]

\* transform( start_times, back_inserter( start_frames ), ins[0]->time_to_frame )
to_start_frames(ins, start_times) ==
    [i \in 1..Len(start_times) |-> time_to_frame(ins[1], start_times[i])]

max_num_channels(ins) == SetMax({ins[i].num_channels : i \in 1..Len(ins)})

\* mutant: the start frames are left out of the output length
RECURSIVE frames_needed_without_start(_, _, _, _)
frames_needed_without_start(ins, start_frames, i, acc) ==
    IF i > Len(ins) THEN acc
    ELSE frames_needed_without_start(ins, start_frames, i + 1,
                                     Max(acc, ins[i].num_frames))

\* format.num_frames = 0; for each i: max( format.num_frames, frames_i + start_frames[i] )
RECURSIVE frames_needed(_, _, _, _)
frames_needed(ins, start_frames, i, acc) ==
    IF i > Len(ins) THEN acc
    ELSE frames_needed(ins, start_frames, i + 1,
                       Max(acc, ins[i].num_frames + start_frames[i]))

\* Audio out( format ); out.clear_buffer()
cleared_output(ins, start_frames) ==
    LET nc == max_num_channels(ins)
        nf == frames_needed(ins, start_frames, 1, 0)
    IN  Audio(nc, nf, ins[1].sample_rate, [p \in Positions(nc, nf) |-> AmpZero])

(***************************************************************************)
(* Audio::mix                                                              *)
(***************************************************************************)
\* mutant: = instead of +=
mix_frame_overwriting(out, me, channel, local_frame, start_frame, amplitude) ==
    LET global_frame == local_frame + start_frame
    IN  IF 0 <= global_frame /\ global_frame < out.num_frames
        THEN [out EXCEPT !.buffer[<<channel, global_frame>>] =
                 AmpScale(me.buffer[<<channel, local_frame>>], amplitude)]
        ELSE out

\* mutant: 0 < global_frame instead of 0 <= global_frame
mix_frame_dropping_frame_zero(out, me, channel, local_frame, start_frame, amplitude) ==
    LET global_frame == local_frame + start_frame
    IN  IF 0 < global_frame /\ global_frame < out.num_frames
        THEN [out EXCEPT !.buffer[<<channel, global_frame>>] =
                 AmpAdd(@, AmpScale(me.buffer[<<channel, local_frame>>], amplitude))]
        ELSE out

\* the body of the frame loop: one local frame of one channel of one input
mix_frame(out, me, channel, local_frame, start_frame, amplitude) ==
    LET global_frame == local_frame + start_frame
    IN  IF 0 <= global_frame /\ global_frame < out.num_frames
        THEN [out EXCEPT !.buffer[<<channel, global_frame>>] =
                 AmpAdd(@, AmpScale(me.buffer[<<channel, local_frame>>], amplitude))]
        ELSE out

RECURSIVE mix_frames(_, _, _, _, _, _)
mix_frames(out, me, channel, local_frame, start_frame, amplitude) ==
    IF local_frame >= me.num_frames THEN out
    ELSE mix_frames(mix_frame(out, me, channel, local_frame, start_frame, amplitude),
                    me, channel, local_frame + 1, start_frame, amplitude)

RECURSIVE mix_channels(_, _, _, _, _)
mix_channels(out, me, channel, start_frame, amplitude) ==
    IF channel >= me.num_channels THEN out
    ELSE mix_channels(mix_frames(out, me, channel, 0, start_frame, amplitude),
                      me, channel + 1, start_frame, amplitude)

RECURSIVE mix_inputs(_, _, _, _, _)
mix_inputs(out, ins, in, start_frames, amplitudes) ==
    IF in > Len(ins) THEN out
    ELSE mix_inputs(mix_channels(out, ins[in], 0, start_frames[in], amplitudes[in]),
                    ins, in + 1, start_frames, amplitudes)

mix(ins_unmatched, start_times_arg, amplitudes_arg) ==
    IF ins_unmatched = <<>> THEN create_null
    ELSE LET ins == matched_inputs(ins_unmatched)
             start_times_padded == pad_to(start_times_arg, Len(ins), 0)
             amplitudes_padded == pad_to(amplitudes_arg, Len(ins), Amp(1))
             start_frames == to_start_frames(ins, start_times_padded)
         IN  mix_inputs(cleared_output(ins, start_frames), ins, 1,
                        start_frames, amplitudes_padded)

(***************************************************************************)
(* Function<Second, Amplitude> and Function<Second, float>.                *)
(* A gain function is a constant, the ramp t |-> t (in ticks), or one of   *)
(* the balance functions select builds.  A selection function takes values *)
(* that are whole numbers of halves: a constant, or the ramp t |-> t/2.    *)
(***************************************************************************)
ConstFunction(v) == [kind |-> "const", value |-> v]
RampFunction == [kind |-> "ramp"]
ConstSelection(h) == [kind |-> "const", halves |-> h]
RampSelection == [kind |-> "ramp"]

\* selection( t ), in halves
selection_at(selection_fn, t) ==
    IF selection_fn.kind = "const" THEN selection_fn.halves ELSE t

\* std::sqrt of a number of halves in 0..2
sqrt_halves(h) == IF h = 0 THEN AmpZero ELSE IF h = 1 THEN <<0, 1>> ELSE Amp(1)

\* the lambda select stores in balances[i], i counted from 0
balance(selection_fn, i, t) ==
    LET distance == Abs(selection_at(selection_fn, t) - 2 * i)
    IN  IF distance >= 2 THEN AmpZero ELSE sqrt_halves(2 - distance)

BalanceFunction(selection_fn, i) ==
    [kind |-> "balance", selection |-> selection_fn, i |-> i]

\* Function::operator()
apply(f, t) ==
    IF f.kind = "const" THEN f.value
    ELSE IF f.kind = "ramp" THEN Amp(t)
    ELSE balance(f.selection, f.i, t)

\* Function::sample( start, end, step ): the values at start*step, ..., (end-1)*step
sample(f, start, end, step) ==
    [k \in 1..(end - start) |-> apply(f, (start + k - 1) * step)]

(***************************************************************************)
(* Audio::mix_variable_gain                                                *)
(***************************************************************************)
\* mutant: every gain function is sampled over its input's own frames
sample_amplitudes_in_local_time(ins, start_frames, amplitudes) ==
    LET level_func == ConstFunction(Amp(1))
    IN  [i \in 1..Len(ins) |->
            LET f == IF i <= Len(amplitudes) THEN amplitudes[i] ELSE level_func
            IN  sample(f, 0, ins[i].num_frames, frame_to_time(ins[i], 1))]

\* the gain schedules: amplitude_samples
sample_amplitudes(ins, start_frames, amplitudes) ==
    LET level_func == ConstFunction(Amp(1))
    IN  [i \in 1..Len(ins) |->
            LET f == IF i <= Len(amplitudes) THEN amplitudes[i] ELSE level_func
            IN  sample(f, start_frames[i], start_frames[i] + ins[i].num_frames,
                       frame_to_time(ins[i], 1))]

mix_variable_gain_frame(out, me, channel, local_frame, start_frame, gains) ==
    LET global_frame == local_frame + start_frame
    IN  IF 0 <= global_frame /\ global_frame < out.num_frames
        THEN LET gain == gains[local_frame + 1]
             IN  [out EXCEPT !.buffer[<<channel, global_frame>>] =
                     AmpAdd(@, AmpScale(me.buffer[<<channel, local_frame>>], gain))]
        ELSE out

RECURSIVE mix_variable_gain_frames(_, _, _, _, _, _)
mix_variable_gain_frames(out, me, channel, local_frame, start_frame, gains) ==
    IF local_frame >= me.num_frames THEN out
    ELSE mix_variable_gain_frames(
             mix_variable_gain_frame(out, me, channel, local_frame, start_frame, gains),
             me, channel, local_frame + 1, start_frame, gains)

RECURSIVE mix_variable_gain_channels(_, _, _, _, _)
mix_variable_gain_channels(out, me, channel, start_frame, gains) ==
    IF channel >= me.num_channels THEN out
    ELSE mix_variable_gain_channels(
             mix_variable_gain_frames(out, me, channel, 0, start_frame, gains),
             me, channel + 1, start_frame, gains)

RECURSIVE mix_variable_gain_inputs(_, _, _, _, _)
mix_variable_gain_inputs(out, ins, in, start_frames, amplitude_samples) ==
    IF in > Len(ins) THEN out
    ELSE mix_variable_gain_inputs(
             mix_variable_gain_channels(out, ins[in], 0, start_frames[in],
                                        amplitude_samples[in]),
             ins, in + 1, start_frames, amplitude_samples)

mix_variable_gain(ins_unmatched, start_times_arg, amplitudes_arg) ==
    IF ins_unmatched = <<>> THEN create_null
    ELSE LET ins == matched_inputs(ins_unmatched)
             start_times_padded == pad_to(start_times_arg, Len(ins), 0)
             start_frames == to_start_frames(ins, start_times_padded)
             amplitude_samples == sample_amplitudes(ins, start_frames, amplitudes_arg)
         IN  mix_variable_gain_inputs(cleared_output(ins, start_frames), ins, 1,
                                      start_frames, amplitude_samples)

(***************************************************************************)
(* The frame loops of mix and mix_variable_gain as the parallel algorithm  *)
(* runs them: std::for_each( FLAN_PAR_UNSEQ ... ) starts one task per      *)
(* local frame of one channel of one input and returns when all of them    *)
(* have finished.  A task's += is a load of the output sample followed by  *)
(* a store.                                                                *)
(***************************************************************************)
\* mutant: a frame before the output is moved to frame 0
task_global_frame_clamped(local_frame, start_frame) == Max(0, local_frame + start_frame)

\* const Frame global_frame = local_frame + start_frames[in]
task_global_frame(local_frame, start_frame) == local_frame + start_frame

\* the first pass at or after (in, channel): the loop conditions
\* in < ins.size() and channel < me.get_num_channels()
RECURSIVE next_pass(_, _, _)
next_pass(ins, in, channel) ==
    IF in > Len(ins) THEN <<in, 0>>
    ELSE IF channel < ins[in].num_channels THEN <<in, channel>>
    ELSE next_pass(ins, in + 1, 0)

\* the tasks one for_each starts: one per local frame, none started yet
fresh_tasks(me) ==
    [local_frame \in 0..(me.num_frames - 1) |-> [state |-> "ready", loaded |-> AmpZero]]

\* the gain of every local frame of every input: amplitudes[in] in mix,
\* amplitude_samples[in][local_frame] in mix_variable_gain
frame_gains(variable, ins, start_frames, amplitudes_arg) ==
    IF variable THEN sample_amplitudes(ins, start_frames, amplitudes_arg)
    ELSE LET amplitudes_padded == pad_to(amplitudes_arg, Len(ins), Amp(1))
         IN  [i \in 1..Len(ins) |-> [k \in 1..ins[i].num_frames |-> amplitudes_padded[i]]]

(***************************************************************************)
(* Audio::mix_in_place                                                     *)
(***************************************************************************)
Min(a, b) == IF a < b THEN a ELSE b

\* sr_correct_source: other itself, or other resampled to this buffer's rate
mix_in_place_source(this, other) ==
    IF this.sample_rate = other.sample_rate THEN other
    ELSE resample(other, this.sample_rate)

\* Audio::sample_function_over_domain: the function at the times of the
\* buffer's own frames 0, ..., num_frames - 1
sample_function_over_domain(a, f) ==
    sample(f, 0, a.num_frames, frame_to_time(a, 1))

\* the buffer the call works on: this, its samples being exact numbers
mix_in_place_target(this) ==
    [this EXCEPT !.buffer = [p \in DOMAIN this.buffer |-> Amp(this.buffer[p])]]

\* mutant: a negative frame is written to frame 0 instead of being skipped
RECURSIVE mix_in_place_frames_clamping(_, _, _, _, _, _)
mix_in_place_frames_clamping(this, source, channel, other_frame, start_time_arg, sampled) ==
    IF other_frame >= source.num_frames THEN this
    ELSE LET this_frame == Max(0, time_to_frame(this, start_time_arg) + other_frame)
         IN  IF this.num_frames <= this_frame THEN this
             ELSE mix_in_place_frames_clamping(
                      [this EXCEPT !.buffer[<<channel, this_frame>>] =
                          AmpAdd(@, AmpScale(source.buffer[<<channel, other_frame>>],
                                             sampled[other_frame + 1]))],
                      source, channel, other_frame + 1, start_time_arg, sampled)

\* the frame loop: continue below frame 0, break at the end of this buffer
RECURSIVE mix_in_place_frames(_, _, _, _, _, _)
mix_in_place_frames(this, source, channel, other_frame, start_time_arg, sampled) ==
    IF other_frame >= source.num_frames THEN this
    ELSE LET this_frame == time_to_frame(this, start_time_arg) + other_frame
         IN  IF this_frame < 0
             THEN mix_in_place_frames(this, source, channel, other_frame + 1,
                                      start_time_arg, sampled)
             ELSE IF this.num_frames <= this_frame THEN this
             ELSE mix_in_place_frames(
                      [this EXCEPT !.buffer[<<channel, this_frame>>] =
                          AmpAdd(@, AmpScale(source.buffer[<<channel, other_frame>>],
                                             sampled[other_frame + 1]))],
                      source, channel, other_frame + 1, start_time_arg, sampled)

RECURSIVE mix_in_place_channels(_, _, _, _, _, _)
mix_in_place_channels(this, source, channel, num_channels, start_time_arg, sampled) ==
    IF channel >= num_channels THEN this
    ELSE mix_in_place_channels(
             mix_in_place_frames(this, source, channel, 0, start_time_arg, sampled),
             source, channel + 1, num_channels, start_time_arg, sampled)

mix_in_place(this, other, start_time_arg, other_amplitude_arg) ==
    LET sr_correct_source == mix_in_place_source(this, other)
        num_channels == Min(this.num_channels, sr_correct_source.num_channels)
        other_amplitude_sampled ==
            sample_function_over_domain(sr_correct_source, other_amplitude_arg)
    IN  mix_in_place_channels(mix_in_place_target(this), sr_correct_source, 0,
                              num_channels, start_time_arg, other_amplitude_sampled)

(***************************************************************************)
(* Audio::join                                                             *)
(***************************************************************************)
\* mutant: jumps starts empty instead of with 0
join_jumps_without_zero(ins) == [i \in 1..Len(ins) |-> get_length(ins[i])]

\* std::vector<Second> jumps( { 0 } ), then every input's get_length()
join_jumps(ins) == <<0>> \o [i \in 1..Len(ins) |-> get_length(ins[i])]

\* mutant: a + b instead of a + b + offset
RECURSIVE partial_sum_without_offset(_, _, _)
partial_sum_without_offset(jumps, n, offset_arg) ==
    IF n = 0 THEN <<>>
    ELSE IF n = 1 THEN <<jumps[1]>>
    ELSE LET prev == partial_sum_without_offset(jumps, n - 1, offset_arg)
         IN  Append(prev, prev[n - 1] + jumps[n])

\* std::partial_sum over jumps.begin() .. jumps.end() - 1 with a + b + offset
RECURSIVE partial_sum(_, _, _)
partial_sum(jumps, n, offset_arg) ==
    IF n = 0 THEN <<>>
    ELSE IF n = 1 THEN <<jumps[1]>>
    ELSE LET prev == partial_sum(jumps, n - 1, offset_arg)
         IN  Append(prev, prev[n - 1] + jumps[n] + offset_arg)

join_start_times(ins, offset_arg) ==
    LET jumps == join_jumps(ins)
    IN  partial_sum(jumps, Len(jumps) - 1, offset_arg)

\* the arguments join hands to mix
join_mix_call(ins, offset_arg) ==
    [ins |-> ins, start_times |-> join_start_times(ins, offset_arg), amplitudes |-> <<>>]

join(ins, offset_arg) ==
    IF ins = <<>> THEN create_null
    ELSE LET call == join_mix_call(ins, offset_arg)
         IN  mix(call.ins, call.start_times, call.amplitudes)

(***************************************************************************)
(* Audio::select                                                           *)
(***************************************************************************)
\* mutant: the balances are centred at 1, 2, ... instead of 0, 1, ...
select_balances_one_based(ins, selection_fn) ==
    [k \in 1..Len(ins) |-> BalanceFunction(selection_fn, k)]

select_balances(ins, selection_fn) ==
    [k \in 1..Len(ins) |-> BalanceFunction(selection_fn, k - 1)]

\* the arguments select hands to mix_variable_gain
select_mix_call(ins, selection_fn, start_times_arg) ==
    [ins |-> ins, start_times |-> start_times_arg,
     amplitudes |-> select_balances(ins, selection_fn)]

select(ins, selection_fn, start_times_arg) ==
    LET call == select_mix_call(ins, selection_fn, start_times_arg)
    IN  mix_variable_gain(call.ins, call.start_times, call.amplitudes)

(***************************************************************************)
(* FFTHelper: real-to-complex and complex-to-real discrete Fourier         *)
(* transforms of size n (a power of two), unnormalised.  A complex number  *)
(* is an exact element of Z[z], z = exp(2*pi*i/n), z^(n/2) = -1: the       *)
(* function [m \in 0..n/2-1 |-> coefficient of z^m].  A transform buffer   *)
(* is [v |-> the numerators, d |-> k], every element being v[.] divided by *)
(* sqrt(n)^k.                                                              *)
(***************************************************************************)
\* f itself, held as a stored array: each element is then evaluated once
Stored(f) == f @@ <<>>

RECURSIVE SumOver(_, _, _)
SumOver(f, lo, hi) == IF lo > hi THEN 0 ELSE f[lo] + SumOver(f, lo + 1, hi)

RECURSIVE Pow(_, _)
Pow(b, e) == IF e = 0 THEN 1 ELSE b * Pow(b, e - 1)

\* the coefficient of z^m in z^j
CycUnitCoef(n, j, m) ==
    LET q == j % n
    IN  IF q = m THEN 1 ELSE IF q = m + (n \div 2) THEN -1 ELSE 0

CycMul(n, x, y) ==
    LET h == n \div 2
    IN  Stored([m \in 0..(h - 1) |->
            SumOver([i \in 0..(h - 1) |->
                        x[i] * (IF i <= m THEN y[m - i] ELSE -y[m - i + h])],
                    0, h - 1)])

\* complex conjugate: z^i becomes z^(-i)
CycConj(n, x) ==
    LET h == n \div 2
    IN  Stored([m \in 0..(h - 1) |-> IF m = 0 THEN x[0] ELSE -x[h - m]])

\* the real part of x * z^j, for a product that is real: its coefficient of z^0
CycRealOfShifted(n, x, j) ==
    SumOver([i \in 0..((n \div 2) - 1) |-> x[i] * CycUnitCoef(n, i + j, 0)],
            0, (n \div 2) - 1)

complex_buffer_size(n) == (n \div 2) + 1

\* bin k = sum over frames of real[frame] * z^(-k*frame), k in 0..n/2
r2c_execute(n, real) ==
    [v |-> Stored([k \in 0..(complex_buffer_size(n) - 1) |->
               Stored([m \in 0..((n \div 2) - 1) |->
                   SumOver([f \in 0..(n - 1) |-> real.v[f] * CycUnitCoef(n, -(k * f), m)],
                           0, n - 1)])]),
     d |-> real.d]

\* frame f = sum over all n bins of bin[k] * z^(k*f), the upper bins being the
\* conjugates of the stored ones; the result is real
c2r_execute(n, complex) ==
    LET full == Stored([k \in 0..(n - 1) |->
                    IF k < complex_buffer_size(n) THEN complex.v[k]
                    ELSE CycConj(n, complex.v[n - k])])
    IN  [v |-> Stored([f \in 0..(n - 1) |->
                   SumOver([k \in 0..(n - 1) |-> CycRealOfShifted(n, full[k], k * f)],
                           0, n - 1)]),
         d |-> complex.d]

\* fft.get_complex_buffer()[bin] *= this_ffted[bin]
multiply_spectrums(n, a, b) ==
    [v |-> Stored([k \in 0..(complex_buffer_size(n) - 1) |-> CycMul(n, a.v[k], b.v[k])]),
     d |-> a.d + b.d]

\* the value of a real buffer element numerator / sqrt(n)^d, d even
real_value(n, numerator, d) == numerator \div Pow(n, d \div 2)

(***************************************************************************)
(* Audio::convolve                                                         *)
(***************************************************************************)
RECURSIVE power_of_2_from(_, _)
power_of_2_from(x, p) == IF p >= x THEN p ELSE power_of_2_from(x, 2 * p)
\* the smallest power of two that is at least x
power_of_2_container(x) == power_of_2_from(x, 1)

\* mutant: the impulse response is used at its own rate
convolve_ir_as_given(this, ir) == ir

convolve_sr_correct_ir(this, ir) ==
    IF this.sample_rate = ir.sample_rate THEN ir ELSE resample(ir, this.sample_rate)

\* mutant: the container of the longer operand, not twice it
convolve_dft_size_without_doubling(this, sr_correct_ir) ==
    power_of_2_container(Max(this.num_frames, sr_correct_ir.num_frames))

convolve_dft_size(this, sr_correct_ir) ==
    2 * power_of_2_container(Max(this.num_frames, sr_correct_ir.num_frames))

\* mutant: sample / dft_size instead of sample / sqrt( dft_size )
load_real_buffer_divided_by_size(dft_size, a, channel) ==
    [v |-> [f \in 0..(dft_size - 1) |->
               IF f < a.num_frames THEN a.buffer[<<channel, f>>] ELSE 0],
     d |-> 2]

\* std::fill( real, 0 ), then real[frame] = sample / sqrt( dft_size )
load_real_buffer(dft_size, a, channel) ==
    [v |-> [f \in 0..(dft_size - 1) |->
               IF f < a.num_frames THEN a.buffer[<<channel, f>>] ELSE 0],
     d |-> 1]

\* the real buffer after the inverse transform, for one channel
convolve_channel(this, sr_correct_ir, dft_size, channel) ==
    LET this_ffted == r2c_execute(dft_size, load_real_buffer(dft_size, this, channel))
        ir_ffted == r2c_execute(dft_size,
                        load_real_buffer(dft_size, sr_correct_ir,
                                         channel % sr_correct_ir.num_channels))
    IN  c2r_execute(dft_size, multiply_spectrums(dft_size, ir_ffted, this_ffted))

\* get_max_sample_magnitude
max_sample_magnitude(a) ==
    IF DOMAIN a.buffer = {} THEN 0
    ELSE SetMax({Abs(a.buffer[p][1]) : p \in DOMAIN a.buffer})

\* convolve past the input validation: the result, and the number every
\* sample of it is divided by (normalize)
convolve_non_null(this, ir, normalize_arg) ==
    LET sr_correct_ir == convolve_sr_correct_ir(this, ir)
        nc == this.num_channels
        nf == this.num_frames + sr_correct_ir.num_frames
        dft_size == convolve_dft_size(this, sr_correct_ir)
        reals == Stored([c \in 0..(nc - 1) |->
                     convolve_channel(this, sr_correct_ir, dft_size, c)])
        out == Audio(nc, nf, this.sample_rate,
                     [p \in Positions(nc, nf) |->
                         Amp(real_value(dft_size, reals[p[1]].v[p[2]], reals[p[1]].d))])
    IN  [audio |-> out,
         divisor |-> IF normalize_arg THEN max_sample_magnitude(out) ELSE 1]

\* mutant: a null impulse response gives back the signal
convolve_null_ir_returns_this(this, ir, normalize_arg) ==
    IF is_null(this) THEN [audio |-> create_null, divisor |-> 1]
    ELSE IF is_null(ir)
         THEN [audio |-> [this EXCEPT !.buffer = [p \in DOMAIN this.buffer |-> Amp(this.buffer[p])]],
               divisor |-> 1]
    ELSE convolve_non_null(this, ir, normalize_arg)

convolve(this, ir, normalize_arg) ==
    IF is_null(this) THEN [audio |-> create_null, divisor |-> 1]
    ELSE IF is_null(ir) THEN [audio |-> create_null, divisor |-> 1]
    ELSE convolve_non_null(this, ir, normalize_arg)

(***************************************************************************)
(* The caller's buffers and arguments.                                     *)
(* The i-th buffer of a call carries the samples Tone(i, channel, frame),  *)
(* all different, so that a sum of samples tells which samples went into   *)
(* it.                                                                     *)
(***************************************************************************)
Tone(i, channel, frame) == 100 * i + 10 * channel + frame + 1

ChannelCounts == {1, MaxChannels}
FrameCounts == {0, 1, MaxFrames}

MakeAudio(i, nc, nf, sr) ==
    Audio(nc, nf, sr, [p \in Positions(nc, nf) |-> Tone(i, p[1], p[2])])

Formats == ChannelCounts \X FrameCounts \X SampleRates

AudiosAt(i) == {MakeAudio(i, fmt[1], fmt[2], fmt[3]) : fmt \in Formats}

\* a single unit sample at frame 0 in every channel
UnitImpulses ==
    {Audio(nc, 1, sr, [p \in Positions(nc, 1) |-> 1]) : nc \in ChannelCounts, sr \in SampleRates}

\* the lists of up to n elements whose first element is drawn from S and
\* whose later elements all equal one element drawn from S
FirstAndRest(S, n) ==
    {[i \in 1..k |-> IF i = 1 THEN first ELSE rest] : k \in 0..n, first \in S, rest \in S}

\* the input lists: the i-th buffer has the samples Tone(i, ., .)
InputLists ==
    {[i \in 1..Len(fmts) |-> MakeAudio(i, fmts[i][1], fmts[i][2], fmts[i][3])] :
        fmts \in FirstAndRest(Formats, MaxInputs)}

StartTimeLists(n) == FirstAndRest(StartTimes, n)

\* the operands of convolve: the null buffer or a buffer with samples
ConvolveOperands(i) ==
    {create_null} \cup {a \in AudiosAt(i) : a.num_frames > 0}

\* constant gains: the first k of 2, -1, 2, -1, ..., or k times the gain 1
AmplitudeLists(n) ==
    {[i \in 1..k |-> IF i % 2 = 1 THEN Amp(2) ELSE Amp(-1)] : k \in 0..n}
        \cup {[i \in 1..k |-> Amp(1)] : k \in 1..n}

\* gain functions: the first k of ramp, constant 2, ramp, constant 2, ...
GainFunctionLists(n) ==
    {[i \in 1..k |-> IF i % 2 = 1 THEN RampFunction ELSE ConstFunction(Amp(2))] : k \in 0..n}

Selections == {ConstSelection(0), ConstSelection(1), ConstSelection(2), RampSelection}

NoCall == [ins |-> <<>>, start_times |-> <<>>, amplitudes |-> <<>>]

VARIABLES
    op,             \* the procedure the caller invokes
    pc,             \* "call" before the procedure runs, "done" after it returned
    ins,            \* mix, mix_variable_gain, join, select: the input buffers
    start_times,    \* mix, mix_variable_gain, select: the start times
    amplitudes,     \* mix: the gains; mix_variable_gain: the gain functions
    selection,      \* select: the selection function
    offset,         \* join: the offset
    signal,         \* convolve: the buffer convolve is called on
    ir,             \* convolve: the impulse response
    normalize,      \* convolve: the normalize flag
    out,            \* the returned buffer
    out_divisor,    \* every sample of out is divided by this number
    inner_call,     \* the arguments join gave to mix, select to mix_variable_gain
    target,         \* mix_in_place: the buffer mix_in_place is called on
    other,          \* mix_in_place: the buffer mixed into it
    start_time,     \* mix_in_place: the start time of other
    other_amplitude,\* mix_in_place: the gain function of other
    pass_in,        \* frame loop of mix, mix_variable_gain: the input of the pass
    pass_channel,   \* frame loop: the channel of the pass
    tasks           \* frame loop: the state of the task of every local frame

vars == <<op, pc, ins, start_times, amplitudes, selection, offset, signal, ir,
          normalize, out, out_divisor, inner_call, target, other, start_time,
          other_amplitude, pass_in, pass_channel, tasks>>

args == <<op, ins, start_times, amplitudes, selection, offset, signal, ir, normalize,
          target, other, start_time, other_amplitude>>

pass_vars == <<pass_in, pass_channel, tasks>>

\* the gain functions handed to mix_in_place
InPlaceGainFunctions == {ConstFunction(Amp(2)), RampFunction}

NoInPlaceArgs ==
    /\ target = create_null /\ other = create_null
    /\ start_time = 0 /\ other_amplitude = ConstFunction(Amp(1))

NoPass == pass_in = 0 /\ pass_channel = 0 /\ tasks = <<>>

InitMixArgs ==
    /\ ins \in InputLists
    /\ start_times \in StartTimeLists(Len(ins))
    /\ selection = ConstSelection(0) /\ offset = 0
    /\ signal = create_null /\ ir = create_null /\ normalize = FALSE
    /\ NoInPlaceArgs

Init ==
    /\ pc = "call"
    /\ out = create_null /\ out_divisor = 1 /\ inner_call = NoCall
    /\ NoPass
    /\ \/ /\ op = "mix"
          /\ InitMixArgs
          /\ amplitudes \in AmplitudeLists(Len(ins))
       \/ /\ op = "mix_variable_gain"
          /\ InitMixArgs
          /\ amplitudes \in GainFunctionLists(Len(ins))
       \/ /\ op = "join"
          /\ ins \in InputLists
          /\ offset \in Offsets
          /\ start_times = <<>> /\ amplitudes = <<>>
          /\ selection = ConstSelection(0)
          /\ signal = create_null /\ ir = create_null /\ normalize = FALSE
          /\ NoInPlaceArgs
       \/ /\ op = "select"
          /\ ins \in InputLists
          /\ start_times \in StartTimeLists(Len(ins))
          /\ selection \in Selections
          /\ amplitudes = <<>> /\ offset = 0
          /\ signal = create_null /\ ir = create_null /\ normalize = FALSE
          /\ NoInPlaceArgs
       \/ /\ op = "convolve"
          /\ signal \in ConvolveOperands(1)
          /\ ir \in ConvolveOperands(2) \cup UnitImpulses
          /\ normalize \in BOOLEAN
          /\ ins = <<>> /\ start_times = <<>> /\ amplitudes = <<>>
          /\ selection = ConstSelection(0) /\ offset = 0
          /\ NoInPlaceArgs
       \/ /\ op = "mix_in_place"
          /\ target \in AudiosAt(1)
          /\ other \in AudiosAt(2)
          /\ start_time \in StartTimes
          /\ other_amplitude \in InPlaceGainFunctions
          /\ ins = <<>> /\ start_times = <<>> /\ amplitudes = <<>>
          /\ selection = ConstSelection(0) /\ offset = 0
          /\ signal = create_null /\ ir = create_null /\ normalize = FALSE

Returned(result, divisor, call) ==
    /\ pc' = "done"
    /\ out' = result
    /\ out_divisor' = divisor
    /\ inner_call' = call
    /\ UNCHANGED args
    /\ UNCHANGED pass_vars

CallMix ==
    /\ pc = "call" /\ op = "mix"
    /\ Returned(mix(ins, start_times, amplitudes), 1, NoCall)

CallMixVariableGain ==
    /\ pc = "call" /\ op = "mix_variable_gain"
    /\ Returned(mix_variable_gain(ins, start_times, amplitudes), 1, NoCall)

CallJoin ==
    /\ pc = "call" /\ op = "join"
    /\ Returned(join(ins, offset), 1,
                IF ins = <<>> THEN NoCall ELSE join_mix_call(ins, offset))

CallSelect ==
    /\ pc = "call" /\ op = "select"
    /\ Returned(select(ins, selection, start_times), 1,
                select_mix_call(ins, selection, start_times))

CallConvolve ==
    /\ pc = "call" /\ op = "convolve"
    /\ LET r == convolve(signal, ir, normalize)
       IN  Returned(r.audio, r.divisor, NoCall)

\* target.mix_in_place( other, start_time, other_amplitude ): out is the
\* target after the call, target and other are the buffers before it
CallMixInPlace ==
    /\ pc = "call" /\ op = "mix_in_place"
    /\ Returned(mix_in_place(target, other, start_time, other_amplitude), 1, NoCall)

Next ==
    \/ CallMix
    \/ CallMixVariableGain
    \/ CallJoin
    \/ CallSelect
    \/ CallConvolve
    \/ CallMixInPlace

Spec == Init /\ [][Next]_vars

(***************************************************************************)
(* mix and mix_variable_gain with their frame tasks interleaved.           *)
(***************************************************************************)
\* the calls whose frame tasks are interleaved: buffers of one rate that
\* have frames, every gain given
FrameTaskInputLists ==
    {l \in InputLists : \A i \in 1..Len(l) :
        l[i].num_frames > 0 /\ l[i].sample_rate = l[1].sample_rate}

InitFrameTasks ==
    /\ pc = "call"
    /\ out = create_null /\ out_divisor = 1 /\ inner_call = NoCall
    /\ NoPass
    /\ ins \in FrameTaskInputLists
    /\ start_times \in StartTimeLists(Len(ins))
    /\ selection = ConstSelection(0) /\ offset = 0
    /\ signal = create_null /\ ir = create_null /\ normalize = FALSE
    /\ NoInPlaceArgs
    /\ \/ op = "mix"
          /\ amplitudes \in {a \in AmplitudeLists(Len(ins)) : Len(a) = Len(ins)}
       \/ op = "mix_variable_gain"
          /\ amplitudes \in {a \in GainFunctionLists(Len(ins)) : Len(a) = Len(ins)}

\* the values the loops work with
PassIns == matched_inputs(ins)
PassStartFrames == to_start_frames(PassIns, pad_to(start_times, Len(PassIns), 0))
PassGains == frame_gains(op = "mix_variable_gain", PassIns, PassStartFrames, amplitudes)
PassMe == PassIns[pass_in]
TaskGlobalFrame(l) == task_global_frame(l, PassStartFrames[pass_in])
TaskInRange(l) == 0 <= TaskGlobalFrame(l) /\ TaskGlobalFrame(l) < out.num_frames

\* input validation failed: return Audio::create_null()
ReturnNull ==
    /\ pc = "call" /\ op \in {"mix", "mix_variable_gain"}
    /\ ins = <<>>
    /\ pc' = "done"
    /\ out' = create_null
    /\ UNCHANGED <<args, pass_vars, out_divisor, inner_call>>

\* everything up to the first for_each: the cleared output, the first pass
EnterFrameLoops ==
    /\ pc = "call" /\ op \in {"mix", "mix_variable_gain"}
    /\ ins # <<>>
    /\ LET first == next_pass(PassIns, 1, 0)
       IN  /\ first[1] <= Len(PassIns)
           /\ pc' = "pass"
           /\ out' = cleared_output(PassIns, PassStartFrames)
           /\ pass_in' = first[1]
           /\ pass_channel' = first[2]
           /\ tasks' = fresh_tasks(PassIns[first[1]])
    /\ UNCHANGED <<args, out_divisor, inner_call>>

\* a task whose global frame is outside the output does nothing
TaskSkip(l) ==
    /\ pc = "pass" /\ tasks[l].state = "ready"
    /\ ~TaskInRange(l)
    /\ tasks' = [tasks EXCEPT ![l].state = "finished"]
    /\ UNCHANGED <<args, pc, out, out_divisor, inner_call, pass_in, pass_channel>>

\* the load of out.get_sample( channel, global_frame ) += ...
TaskLoad(l) ==
    /\ pc = "pass" /\ tasks[l].state = "ready"
    /\ TaskInRange(l)
    /\ tasks' = [tasks EXCEPT ![l] =
                    [state |-> "loaded",
                     loaded |-> out.buffer[<<pass_channel, TaskGlobalFrame(l)>>]]]
    /\ UNCHANGED <<args, pc, out, out_divisor, inner_call, pass_in, pass_channel>>

\* the store of out.get_sample( channel, global_frame ) += sample * gain
TaskStore(l) ==
    /\ pc = "pass" /\ tasks[l].state = "loaded"
    /\ out' = [out EXCEPT !.buffer[<<pass_channel, TaskGlobalFrame(l)>>] =
                   AmpAdd(tasks[l].loaded,
                          AmpScale(PassMe.buffer[<<pass_channel, l>>],
                                   PassGains[pass_in][l + 1]))]
    /\ tasks' = [tasks EXCEPT ![l].state = "finished"]
    /\ UNCHANGED <<args, pc, out_divisor, inner_call, pass_in, pass_channel>>

AllTasksFinished == \A l \in DOMAIN tasks : tasks[l].state = "finished"

\* for_each returns; the loops go on to the next channel or input
NextPass ==
    /\ pc = "pass" /\ AllTasksFinished
    /\ LET following == next_pass(PassIns, pass_in, pass_channel + 1)
       IN  /\ following[1] <= Len(PassIns)
           /\ pass_in' = following[1]
           /\ pass_channel' = following[2]
           /\ tasks' = fresh_tasks(PassIns[following[1]])
    /\ UNCHANGED <<args, pc, out, out_divisor, inner_call>>

\* for_each returns and the loops are over: return out
ReturnOut ==
    /\ pc = "pass" /\ AllTasksFinished
    /\ next_pass(PassIns, pass_in, pass_channel + 1)[1] > Len(PassIns)
    /\ pc' = "done"
    /\ UNCHANGED <<args, out, out_divisor, inner_call, pass_vars>>

NextFrameTasks ==
    \/ ReturnNull
    \/ EnterFrameLoops
    \/ \E l \in DOMAIN tasks : TaskSkip(l)
    \/ \E l \in DOMAIN tasks : TaskLoad(l)
    \/ \E l \in DOMAIN tasks : TaskStore(l)
    \/ NextPass
    \/ ReturnOut

SpecFrameTasks == InitFrameTasks /\ [][NextFrameTasks]_vars

(***************************************************************************)
(* What the claims speak of: the common rate, each input at that rate, its *)
(* start frame and gain, and sums of contributions.                        *)
(***************************************************************************)
CommonRate == SetMax({ins[i].sample_rate : i \in 1..Len(ins)})

\* input i (from 1) as mixed: at the common rate
InputAtCommonRate(i) ==
    IF ins[i].sample_rate = CommonRate THEN ins[i] ELSE resample(ins[i], CommonRate)

StartTimeOf(times, i) == IF i <= Len(times) THEN times[i] ELSE 0
StartFrameOf(times, i) == Trunc(StartTimeOf(times, i) * CommonRate, TicksPerSecond)
ConstantGainOf(gains, i) == IF i <= Len(gains) THEN gains[i] ELSE Amp(1)

\* input i has channel c and a frame that lands on output frame g
Covers(times, i, c, g) ==
    /\ c < InputAtCommonRate(i).num_channels
    /\ 0 <= g - StartFrameOf(times, i)
    /\ g - StartFrameOf(times, i) < InputAtCommonRate(i).num_frames

SampleUnder(times, i, c, g) ==
    InputAtCommonRate(i).buffer[<<c, g - StartFrameOf(times, i)>>]

RECURSIVE AmpSum(_, _)
AmpSum(f, n) == IF n = 0 THEN AmpZero ELSE AmpAdd(AmpSum(f, n - 1), f[n])

\* the sum of the contributions of all inputs to output sample (c, g)
ConstantGainSum(times, gains, c, g) ==
    AmpSum([i \in 1..Len(ins) |->
               IF Covers(times, i, c, g)
               THEN AmpScale(SampleUnder(times, i, c, g), ConstantGainOf(gains, i))
               ELSE AmpZero], Len(ins))

MixReturned == pc = "done" /\ op = "mix" /\ ins # <<>>

(***************************************************************************)
(* C1: the buffer mix returns for a non-empty input list has the greatest  *)
(* channel count among the inputs, the common (maximum) sample rate, and   *)
(* as frame count the maximum over the inputs of frames + start frame,     *)
(* floored at 0, frames and start frames being counted at the common rate. *)
(***************************************************************************)
C1_MixOutputFormat ==
    MixReturned =>
        /\ out.num_channels = SetMax({ins[i].num_channels : i \in 1..Len(ins)})
        /\ out.sample_rate = CommonRate
        /\ out.num_frames =
               SetMax({0} \cup {InputAtCommonRate(i).num_frames + StartFrameOf(start_times, i) :
                                   i \in 1..Len(ins)})

\* mix returned for two inputs of different rates, one of them starting before frame 0
C1_Witness ==
    /\ MixReturned /\ Len(ins) = 2
    /\ ins[1].sample_rate # ins[2].sample_rate
    /\ ins[1].num_channels < ins[2].num_channels
    /\ StartFrameOf(start_times, 1) < 0
    /\ out.num_frames > 0

(***************************************************************************)
(* C2: after mix, every output sample (c, g) is the sum, over exactly the  *)
(* inputs i that have channel c and a frame g - start_frame_i, of that     *)
(* input's sample times gain_i, and 0 when no input covers (c, g).         *)
(***************************************************************************)
C2_MixSamplesAreSums ==
    MixReturned =>
        \A p \in DOMAIN out.buffer :
            out.buffer[p] = ConstantGainSum(start_times, amplitudes, p[1], p[2])

\* two inputs at the default gain and start time overlap in an output sample,
\* which holds the sum of their two samples
C2_Witness ==
    /\ MixReturned /\ Len(ins) = 2
    /\ start_times = <<>> /\ amplitudes = <<>>
    /\ \E p \in DOMAIN out.buffer :
          /\ Covers(start_times, 1, p[1], p[2])
          /\ Covers(start_times, 2, p[1], p[2])
          /\ out.buffer[p] = Amp(SampleUnder(start_times, 1, p[1], p[2])
                                 + SampleUnder(start_times, 2, p[1], p[2]))

(***************************************************************************)
(* C3: mix of the single non-null buffer a at start time 0 and gain 1      *)
(* returns a buffer with a's channel count, frame count and sample rate    *)
(* and a's sample at every position.                                       *)
(***************************************************************************)
C3_MixSingleIsIdentity ==
    ( /\ MixReturned /\ Len(ins) = 1
      /\ ins[1].num_channels > 0 /\ ins[1].num_frames > 0
      /\ start_times \in {<<>>, <<0>>}
      /\ amplitudes \in {<<>>, <<Amp(1)>>} ) =>
        /\ out.num_channels = ins[1].num_channels
        /\ out.num_frames = ins[1].num_frames
        /\ out.sample_rate = ins[1].sample_rate
        /\ \A p \in Positions(ins[1].num_channels, ins[1].num_frames) :
               out.buffer[p] = Amp(ins[1].buffer[p])

\* mix returned for one buffer with several channels and frames, start time 0 and gain 1 given
C3_Witness ==
    /\ MixReturned /\ Len(ins) = 1
    /\ ins[1].num_channels > 1 /\ ins[1].num_frames > 1
    /\ start_times = <<0>> /\ amplitudes = <<Amp(1)>>
    /\ out.buffer[<<1, 1>>] = Amp(ins[1].buffer[<<1, 1>>])

(***************************************************************************)
(* C4: mix, mix_variable_gain and join called with an empty input list,    *)
(* and convolve called when the signal or the impulse response is null,    *)
(* return the null buffer: 0 channels and 0 frames.                        *)
(***************************************************************************)
C4_DegenerateInputsGiveNull ==
    ( /\ pc = "done"
      /\ \/ op \in {"mix", "mix_variable_gain", "join"} /\ ins = <<>>
         \/ op = "convolve" /\ (is_null(signal) \/ is_null(ir)) ) =>
        /\ out.num_channels = 0
        /\ out.num_frames = 0
        /\ DOMAIN out.buffer = {}

\* convolve returned for a signal with samples and the null impulse response
C4_Witness ==
    /\ pc = "done" /\ op = "convolve"
    /\ signal.num_frames > 0 /\ is_null(ir)
    /\ out.num_channels = 0

(***************************************************************************)
(* C5: inputs without an entry in start_times or gains are mixed at start  *)
(* time 0 and gain 1: mix returns what it returns for the lists padded     *)
(* with 0 and 1; mix_variable_gain uses start time 0 and the constant-1    *)
(* gain function for missing entries, and with no gain functions returns   *)
(* the buffer mix returns for the same inputs and start times.             *)
(***************************************************************************)
PaddedWith(v, fill) == [i \in 1..Len(ins) |-> IF i <= Len(v) THEN v[i] ELSE fill]

C5_MissingEntriesDefault ==
    /\ MixReturned =>
           out = mix(ins, PaddedWith(start_times, 0), PaddedWith(amplitudes, Amp(1)))
    /\ (pc = "done" /\ op = "mix_variable_gain" /\ ins # <<>>) =>
           /\ out = mix_variable_gain(ins, PaddedWith(start_times, 0),
                                      PaddedWith(amplitudes, ConstFunction(Amp(1))))
           /\ amplitudes = <<>> => out = mix(ins, start_times, <<>>)

\* mix returned for two inputs with samples, one start time and one gain given
C5_Witness ==
    /\ MixReturned /\ Len(ins) = 2
    /\ Len(start_times) = 1 /\ start_times[1] # 0
    /\ Len(amplitudes) = 1 /\ amplitudes[1] # Amp(1)
    /\ ins[2].num_frames > 0
    /\ out.buffer[<<0, 0>>] # AmpZero

(***************************************************************************)
(* C6: in join(inputs, offset) the start time handed to mix for the k-th   *)
(* input (k from 0) is the sum of the durations of inputs 0..k-1 plus      *)
(* k * offset, there is one start time per input, and no gain is handed    *)
(* over, so that every input is mixed at the default gain 1.               *)
(***************************************************************************)
JoinReturned == pc = "done" /\ op = "join" /\ ins # <<>>

\* the duration of a buffer in ticks
Duration(a) == (a.num_frames * TicksPerSecond) \div a.sample_rate

RECURSIVE DurationsBefore(_)
DurationsBefore(k) == IF k = 0 THEN 0 ELSE DurationsBefore(k - 1) + Duration(ins[k])

C6_JoinStartTimes ==
    JoinReturned =>
        /\ inner_call.ins = ins
        /\ Len(inner_call.start_times) = Len(ins)
        /\ \A k \in 0..(Len(ins) - 1) :
               inner_call.start_times[k + 1] = DurationsBefore(k) + k * offset
        /\ inner_call.amplitudes = <<>>
        /\ out = mix(ins, inner_call.start_times, [i \in 1..Len(ins) |-> Amp(1)])

\* join returned for two buffers of different rates with a non-zero offset
C6_Witness ==
    /\ JoinReturned /\ Len(ins) = 2 /\ offset # 0
    /\ ins[1].sample_rate # ins[2].sample_rate
    /\ ins[1].num_frames > 0
    /\ inner_call.start_times[2] = Duration(ins[1]) + offset

SelectReturned == pc = "done" /\ op = "select" /\ ins # <<>>

\* the crossfade kernel at a selection value h (in halves) for input i (from 0):
\* 1 at distance 0, sqrt(1/2) at distance 1/2, 0 from distance 1 on
Kernel(h, i) ==
    IF h = 2 * i THEN Amp(1)
    ELSE IF h = 2 * i + 1 \/ h = 2 * i - 1 THEN <<0, 1>>
    ELSE AmpZero

\* the time, in ticks, of output frame g
TimeOfOutputFrame(g) == (g * TicksPerSecond) \div CommonRate

SelectSum(gain_of(_, _), c, g) ==
    AmpSum([i \in 1..Len(ins) |->
               IF Covers(start_times, i, c, g)
               THEN AmpScale(SampleUnder(start_times, i, c, g), gain_of(i, g))
               ELSE AmpZero], Len(ins))

KernelGain(i, g) == Kernel(selection_at(selection, TimeOfOutputFrame(g)), i - 1)
OnlyInput(j, i) == IF i = j + 1 THEN Amp(1) ELSE AmpZero
HalfWayGain(i) == IF i \in {1, 2} THEN <<0, 1>> ELSE AmpZero

C8_SelectCrossfade ==
    SelectReturned =>
        /\ \A p \in DOMAIN out.buffer :
               out.buffer[p] = SelectSum(KernelGain, p[1], p[2])
        /\ \A j \in 0..(Len(ins) - 1) :
               selection = ConstSelection(2 * j) =>
                   \A p \in DOMAIN out.buffer :
                       out.buffer[p] = SelectSum(LAMBDA i, g : OnlyInput(j, i), p[1], p[2])
        /\ selection = ConstSelection(1) =>
               \A p \in DOMAIN out.buffer :
                   out.buffer[p] = SelectSum(LAMBDA i, g : HalfWayGain(i), p[1], p[2])

\* select returned for two overlapping inputs and the selection constantly 0.5:
\* an output sample is sqrt(0.5) times the sum of the two inputs' samples
C8_Witness ==
    /\ SelectReturned /\ Len(ins) = 2 /\ selection = ConstSelection(1)
    /\ \E p \in DOMAIN out.buffer :
          /\ Covers(start_times, 1, p[1], p[2])
          /\ Covers(start_times, 2, p[1], p[2])
          /\ out.buffer[p] = <<0, SampleUnder(start_times, 1, p[1], p[2])
                                  + SampleUnder(start_times, 2, p[1], p[2])>>

(***************************************************************************)
(* C9: for non-null buffers, also of different sample rates, convolve      *)
(* returns a buffer with the signal's channel count and sample rate whose  *)
(* frame count is the signal's frames plus the impulse response's frames,  *)
(* the latter counted at the signal's rate; the signal is not resampled.   *)
(***************************************************************************)
ConvolveReturned ==
    pc = "done" /\ op = "convolve" /\ ~is_null(signal) /\ ~is_null(ir)

IrAtSignalRate ==
    IF ir.sample_rate = signal.sample_rate THEN ir ELSE resample(ir, signal.sample_rate)

C9_ConvolveOutputFormat ==
    ConvolveReturned =>
        /\ out.num_frames = signal.num_frames + IrAtSignalRate.num_frames
        /\ out.num_channels = signal.num_channels
        /\ out.sample_rate = signal.sample_rate

\* convolve returned for operands of different rates, the impulse response
\* having another frame count at the signal's rate
C9_Witness ==
    /\ ConvolveReturned
    /\ ir.sample_rate # signal.sample_rate
    /\ IrAtSignalRate.num_frames # ir.num_frames
    /\ ir.num_channels # signal.num_channels
    /\ out.num_frames > signal.num_frames + 1

(***************************************************************************)
(* C10: convolve(signal, ir, normalize = false), ir being a single unit    *)
(* sample at frame 0 (at the signal's rate), returns in every channel the  *)
(* signal's samples in frames 0..signal.frames-1 followed by zeros: the    *)
(* scalings and the two transforms cancel and no sample wraps around.      *)
(***************************************************************************)
IsUnitImpulse(a) ==
    /\ a.num_frames = 1 /\ a.num_channels > 0
    /\ \A p \in DOMAIN a.buffer : a.buffer[p] = 1

C10_ConvolveWithImpulseIsIdentity ==
    (ConvolveReturned /\ ~normalize /\ IsUnitImpulse(IrAtSignalRate)) =>
        /\ out_divisor = 1
        /\ DOMAIN out.buffer = Positions(signal.num_channels, signal.num_frames + 1)
        /\ \A p \in DOMAIN out.buffer :
               out.buffer[p] = IF p[2] < signal.num_frames THEN Amp(signal.buffer[p])
                               ELSE AmpZero

\* convolve returned for a signal of several channels and frames and a
\* one-channel unit impulse
C10_Witness ==
    /\ ConvolveReturned /\ ~normalize /\ IsUnitImpulse(ir)
    /\ ir.sample_rate = signal.sample_rate
    /\ ir.num_channels = 1
    /\ signal.num_channels > 1 /\ signal.num_frames > 1
    /\ out.buffer[<<1, 1>>] = Amp(signal.buffer[<<1, 1>>])
    /\ out.buffer[<<1, signal.num_frames>>] = AmpZero

(***************************************************************************)
(* What the claims about mix_in_place speak of: other at the target's      *)
(* rate, the target frame its frame 0 lands on, and the target samples the *)
(* call may write.                                                         *)
(***************************************************************************)
InPlaceReturned == pc = "done" /\ op = "mix_in_place"

OtherAtTargetRate ==
    IF other.sample_rate = target.sample_rate THEN other
    ELSE resample(other, target.sample_rate)

InPlaceStartFrame == Trunc(start_time * target.sample_rate, TicksPerSecond)

InPlaceTouches(c, g) ==
    /\ c < target.num_channels /\ c < OtherAtTargetRate.num_channels
    /\ 0 <= g - InPlaceStartFrame
    /\ g - InPlaceStartFrame < OtherAtTargetRate.num_frames

\* the time of target frame g, in ticks
TimeOfTargetFrame(g) == (g * TicksPerSecond) \div target.sample_rate

(***************************************************************************)
(* C11: mix_in_place leaves the target's channel count, frame count and    *)
(* sample rate as they were, and every target sample keeps its value       *)
(* unless its channel c is below both channel counts and its frame is      *)
(* start_frame + f for a frame f of other (other counted at the target's   *)
(* rate); frames of other that land outside the target write nothing.      *)
(* other is passed by const reference and the call has no write to it.     *)
(***************************************************************************)
C11_MixInPlaceFrameEffect ==
    InPlaceReturned =>
        /\ out.num_channels = target.num_channels
        /\ out.num_frames = target.num_frames
        /\ out.sample_rate = target.sample_rate
        /\ DOMAIN out.buffer = DOMAIN target.buffer
        /\ \A p \in DOMAIN target.buffer :
               ~InPlaceTouches(p[1], p[2]) => out.buffer[p] = Amp(target.buffer[p])

\* a call that changes a sample, leaves another one alone, and has frames of
\* other landing before frame 0 or past the end of the target
C11_Witness ==
    /\ InPlaceReturned
    /\ \E p \in DOMAIN target.buffer : out.buffer[p] # Amp(target.buffer[p])
    /\ \E p \in DOMAIN target.buffer : ~InPlaceTouches(p[1], p[2])
    /\ \/ InPlaceStartFrame < 0
       \/ InPlaceStartFrame + OtherAtTargetRate.num_frames > target.num_frames

(***************************************************************************)
(* C12: every target sample mix_in_place touches, at frame start_frame + f *)
(* of channel c, ends as its previous value plus other[c][f] times the     *)
(* gain function at the time of target frame start_frame + f; for buffers  *)
(* of one rate that is the sample mix_variable_gain([target, other],       *)
(* [0, start_time], [1, g]) has at that channel and frame.                 *)
(***************************************************************************)
C12_InPlaceGainAtGlobalTime ==
    InPlaceReturned =>
        /\ \A p \in DOMAIN target.buffer :
               InPlaceTouches(p[1], p[2]) =>
                   out.buffer[p] =
                       AmpAdd(Amp(target.buffer[p]),
                              AmpScale(OtherAtTargetRate.buffer[
                                           <<p[1], p[2] - InPlaceStartFrame>>],
                                       apply(other_amplitude, TimeOfTargetFrame(p[2]))))
        /\ target.sample_rate = other.sample_rate /\ ~is_null(target) =>
               LET mixed == mix_variable_gain(<<target, other>>, <<0, start_time>>,
                                <<ConstFunction(Amp(1)), other_amplitude>>)
               IN  \A p \in DOMAIN target.buffer :
                       InPlaceTouches(p[1], p[2]) => out.buffer[p] = mixed.buffer[p]

(***************************************************************************)
(* C13: while the frame tasks of mix and mix_variable_gain run, the tasks  *)
(* of one pass that write at all write to pairwise different output        *)
(* samples (local frame -> local frame + start frame is injective); the    *)
(* pass changes to the next channel or input only when every task of the   *)
(* current pass has finished; and whatever the interleaving of the loads   *)
(* and stores, the returned buffer is the one the loops produce when run   *)
(* one frame after the other.                                              *)
(***************************************************************************)
TasksWriteApart ==
    \A l1 \in DOMAIN tasks : \A l2 \in DOMAIN tasks :
        (l1 # l2 /\ TaskInRange(l1) /\ TaskInRange(l2))
            => TaskGlobalFrame(l1) # TaskGlobalFrame(l2)

SequentialResult ==
    IF op = "mix" THEN mix(ins, start_times, amplitudes)
    ELSE mix_variable_gain(ins, start_times, amplitudes)

C13_FrameTasksDoNotRace ==
    /\ [](/\ pc = "pass" => TasksWriteApart
          /\ pc = "done" => out = SequentialResult)
    /\ [][(pc = "pass" /\ <<pass_in, pass_channel>>' # <<pass_in, pass_channel>>)
              => AllTasksFinished]_vars

\* two tasks of the second input are between their load and their store,
\* on samples the first input has already written
C13_Witness ==
    /\ pc = "pass" /\ pass_in = 2
    /\ \E l1 \in DOMAIN tasks : \E l2 \in DOMAIN tasks :
           /\ l1 # l2
           /\ tasks[l1].state = "loaded" /\ tasks[l1].loaded # AmpZero
           /\ tasks[l2].state = "loaded" /\ tasks[l2].loaded # AmpZero

(***************************************************************************)
(* C14: in mix_variable_gain the gain schedule of input i has as many      *)
(* entries as the input has frames (at the common rate) and its entry for  *)
(* local frame l is the gain function at the time of global frame          *)
(* start_frame_i + l, negative start frames included; every output sample  *)
(* (c, g) is the sum over the inputs covering it of the input's sample     *)
(* times its gain function at the time of output frame g.                  *)
(***************************************************************************)
GainSchedule ==
    LET matched == matched_inputs(ins)
    IN  sample_amplitudes(matched,
                          to_start_frames(matched, pad_to(start_times, Len(matched), 0)),
                          amplitudes)

GainFunctionOf(i) ==
    IF i <= Len(amplitudes) THEN amplitudes[i] ELSE ConstFunction(Amp(1))

GainAtGlobalTime(i, g) == apply(GainFunctionOf(i), TimeOfOutputFrame(g))

C14_GainScheduleInGlobalTime ==
    (op = "mix_variable_gain" /\ ins # <<>>) =>
        /\ \A i \in 1..Len(ins) :
               /\ Len(GainSchedule[i]) = InputAtCommonRate(i).num_frames
               /\ \A l \in 0..(InputAtCommonRate(i).num_frames - 1) :
                      GainSchedule[i][l + 1] =
                          GainAtGlobalTime(i, StartFrameOf(start_times, i) + l)
        /\ pc = "done" =>
               \A p \in DOMAIN out.buffer :
                   out.buffer[p] = SelectSum(GainAtGlobalTime, p[1], p[2])

\* the first input starts before frame 0 under the gain t |-> t: its frame
\* that lands on output frame 0 is mixed at the gain of time 0, which is 0,
\* and the schedule's entry for its local frame 0 is the gain of a negative time
C14_Witness ==
    /\ pc = "done" /\ op = "mix_variable_gain" /\ Len(ins) = 1
    /\ amplitudes = <<RampFunction>>
    /\ StartFrameOf(start_times, 1) < 0
    /\ Covers(start_times, 1, 0, 0)
    /\ GainSchedule[1][1][1] < 0
    /\ out.buffer[<<0, 0>>] = AmpZero

(***************************************************************************)
(* C15: for non-null operands the transform size of convolve is a power of *)
(* two, at least twice the larger of the signal's and the impulse          *)
(* response's frame counts, and no smaller power of two is; so the two     *)
(* frame counts together do not exceed it, every frame copied into the     *)
(* real buffer and every output frame copied out of it is inside the       *)
(* buffer, and the result is the linear convolution of the two operands:   *)
(* nothing wraps around.  (The impulse response at the signal's rate.)     *)
(***************************************************************************)
DftSize == convolve_dft_size(signal, IrAtSignalRate)

IsPowerOfTwo(n) == \E k \in 0..n : n = Pow(2, k)

LongerOperand == Max(signal.num_frames, IrAtSignalRate.num_frames)

\* sample f of the linear convolution of channel c of the signal with the
\* impulse response's channel c modulo its channel count
LinearConvolution(c, f) ==
    SumOver([k \in 0..(signal.num_frames - 1) |->
                IF 0 <= f - k /\ f - k < IrAtSignalRate.num_frames
                THEN signal.buffer[<<c, k>>]
                         * IrAtSignalRate.buffer[<<c % IrAtSignalRate.num_channels, f - k>>]
                ELSE 0],
            0, signal.num_frames - 1)

C15_TransformSizeFits ==
    (op = "convolve" /\ ~is_null(signal) /\ ~is_null(ir)) =>
        /\ IsPowerOfTwo(DftSize)
        /\ DftSize >= 2 * LongerOperand
        /\ \A n \in 1..(DftSize - 1) : IsPowerOfTwo(n) => n < 2 * LongerOperand
        /\ signal.num_frames + IrAtSignalRate.num_frames <= DftSize
        /\ pc = "done" =>
               /\ out.num_frames <= DftSize
               /\ \A p \in DOMAIN out.buffer :
                      out.buffer[p] = Amp(LinearConvolution(p[1], p[2]))

\* both operands have the same power-of-two length: the output frames fill
\* the transform buffer exactly, and the last sample of the linear
\* convolution is the product of the two last samples
C15_Witness ==
    /\ ConvolveReturned
    /\ signal.num_frames = IrAtSignalRate.num_frames
    /\ signal.num_frames > 1
    /\ out.num_frames = DftSize
    /\ out.buffer[<<0, out.num_frames - 2>>] =
           Amp(signal.buffer[<<0, signal.num_frames - 1>>]
                   * IrAtSignalRate.buffer[<<0, signal.num_frames - 1>>])

(***************************************************************************)
(* C16: match_sample_rates_or_return_null returns the empty list exactly   *)
(* when the input list is empty or all inputs have one sample rate;        *)
(* otherwise it returns one buffer per input, in input order, each being   *)
(* that input (its channels, its duration, its samples) at the greatest    *)
(* sample rate among the inputs.  The buffers mix and mix_variable_gain    *)
(* work on therefore all have that rate, and it is the rate of the         *)
(* returned buffer.                                                        *)
(***************************************************************************)
Reconciled == match_sample_rates_or_return_null(ins)

AllShareOneRate ==
    \A i \in 1..Len(ins) : \A j \in 1..Len(ins) : ins[i].sample_rate = ins[j].sample_rate

\* b is the input a at the sample rate sr
IsAtRate(b, a, sr) ==
    /\ b.sample_rate = sr
    /\ b.num_channels = a.num_channels
    /\ b.num_frames = CeilDiv(a.num_frames * sr, a.sample_rate)
    /\ \A p \in DOMAIN b.buffer : \E q \in DOMAIN a.buffer :
           q[1] = p[1] /\ b.buffer[p] = a.buffer[q]

C16_RatesAreReconciled ==
    op \in {"mix", "mix_variable_gain"} =>
        /\ (Reconciled = <<>>) <=> (ins = <<>> \/ AllShareOneRate)
        /\ Reconciled # <<>> =>
               /\ Len(Reconciled) = Len(ins)
               /\ \A i \in 1..Len(ins) : IsAtRate(Reconciled[i], ins[i], CommonRate)
        /\ ins # <<>> =>
               /\ Len(matched_inputs(ins)) = Len(ins)
               /\ \A i \in 1..Len(ins) : matched_inputs(ins)[i].sample_rate = CommonRate
               /\ pc = "done" => out.sample_rate = CommonRate

\* mix returned for two inputs of different rates, the first one the slower:
\* it was resampled, and the output has frames at the greater rate
C16_Witness ==
    /\ pc = "done" /\ op = "mix" /\ Len(ins) = 2
    /\ ins[1].sample_rate < ins[2].sample_rate
    /\ ins[1].num_frames > 0
    /\ Reconciled # <<>>
    /\ Reconciled[1].num_frames > ins[1].num_frames
    /\ out.sample_rate = ins[2].sample_rate
    /\ out.num_frames > 0

=============================================================================
